---- MODULE Spec2Model ----
(***************************************************************************)
(* The pairwise match-scoring pipelines of cv-analysis-server:             *)
(*   analyze_cv_with_jobs  (CV against every active job, threshold 0.5),   *)
(*   related_jobs          (job against every other active job, 0.4),      *)
(*   filter_candidates     (filter against every stored CV row, 0.6),      *)
(*   recommend_jobs_for_cv (read of the match table, cached),              *)
(* with the Redis cache, the two PostgreSQL tables they write, the thread  *)
(* pool that runs the oracle calls, and the cache administration           *)
(* endpoints.  Each request is a process; a step is one access to shared   *)
(* state (cache, table, oracle) together with the local code before it.    *)
(*                                                                         *)
(* Scores are integers in units of 0.0001 (0.5 is 5000).  The explanation  *)
(* text, the cv_text and the created_at stamps are opaque pass-through     *)
(* values no decision depends on; they are left out of the entries.        *)
(***************************************************************************)
EXTENDS Integers, Sequences, FiniteSets, TLC

\* ------------------------------------------------------------------ bounds
MaxSharedJobs == 1  \* job ids of the job table when requests run concurrently
MaxJobs == 2        \* job ids of the job table when requests run one at a time
MaxPool == 6        \* size of the job table of the single large fan-out
HighScore == 8000   \* a score the oracle gives that is above every threshold

\* ------------------------------------------------------- program constants
max_workers == 5
CV_JOB_THRESHOLD == 5000
FILTER_THRESHOLD == 6000
RELATED_THRESHOLD == 4000
NLI_TTL == 1800
RELATED_TTL == 10800
NO_TTL == 0
RECOMMEND_LIMIT == 10

VARIABLES
    job,              \* the job table: id -> enabled and unexpired
    oracle,           \* per pipeline, the answers the oracle may give
    cache,            \* Redis: key -> entry
    cv_job_matches,   \* table cv_job_matches, in insertion order
    nli_analysis,     \* table nli_analysis, in insertion order
    proc              \* the requests being served

vars == <<job, oracle, cache, cv_job_matches, nli_analysis, proc>>

Procs == {1, 2}
CvIds == {1, 2}
ClosedJob == MaxPool + 1     \* a row of every job table that is disabled or expired
MissingJob == MaxPool + 2    \* a job id that is in no job table

\* ------------------------------------------------------------------- cache
\* The keys f"nli_analysis:cv:{cv_id}", f"recommend:cv:{cv_id}" and
\* f"related_jobs:{job_id}" are pairs <<prefix, id>>.  The cache maps the keys
\* it holds to [val, ttl]; ttl is NO_TTL for an entry that never expires.

\* json.dumps / json.loads of a list of entries: the stored string wraps the
\* list; a string is not a list.
json_dumps(v) == [json |-> v]
json_loads(s) == s.json

r_exists(key) == key \in DOMAIN cache
r_set(key, val, ttl) ==
    [k \in DOMAIN cache \cup {key} |->
        IF k = key THEN [val |-> val, ttl |-> ttl] ELSE cache[k]]
r_delete(key) == [k \in DOMAIN cache \ {key} |-> cache[k]]

\* ------------------------------------------------------------------ oracle
\* An answer of chain.invoke: it raises, or it returns text that holds no
\* decodable JSON object, or text whose JSON object carries this score.
Failures == {[kind |-> "exception", score |-> 0], [kind |-> "unparseable", score |-> 0]}
Scored(S) == {[kind |-> "json", score |-> s] : s \in S}
NoAnswer == [kind |-> "none", score |-> 0]
\* every failure, and around each threshold: just below, exactly on it, above
AllAnswers ==
    [analyze |-> Failures \cup Scored({CV_JOB_THRESHOLD - 1, CV_JOB_THRESHOLD, HighScore}),
     related |-> Failures \cup Scored({RELATED_THRESHOLD - 1, RELATED_THRESHOLD, RELATED_THRESHOLD + 4}),
     filter  |-> Failures \cup Scored({FILTER_THRESHOLD - 1, FILTER_THRESHOLD, HighScore})]
\* one failure, one score on the threshold
FewAnswers ==
    [analyze |-> {[kind |-> "exception", score |-> 0]} \cup Scored({CV_JOB_THRESHOLD}),
     related |-> {[kind |-> "unparseable", score |-> 0]} \cup Scored({RELATED_THRESHOLD}),
     filter  |-> {[kind |-> "exception", score |-> 0]} \cup Scored({FILTER_THRESHOLD})]

\* the score 1.0, and answers whose score is not a score: below 0, above 1
MaxScore == 2 * CV_JOB_THRESHOLD
WideAnswers ==
    [analyze |-> {[kind |-> "exception", score |-> 0]}
                    \cup Scored({0 - 1, CV_JOB_THRESHOLD, MaxScore + 1}),
     related |-> {[kind |-> "unparseable", score |-> 0]}
                    \cup Scored({0 - 1, RELATED_THRESHOLD, MaxScore + 10}),
     filter  |-> {[kind |-> "exception", score |-> 0]}
                    \cup Scored({0 - 1, FILTER_THRESHOLD, MaxScore + 1})]

\* faulty variant: the results are left in the order they were collected in
unsorted(s, field) == s

\* faulty variant: the threshold test is strict
cv_job_match_strict(score) == score > CV_JOB_THRESHOLD

\* if score >= 0.5 / if match_score >= 0.6 / if score >= 0.4
cv_job_match(score) == score >= CV_JOB_THRESHOLD
filter_match(score) == score >= FILTER_THRESHOLD
related_match(score) == score >= RELATED_THRESHOLD

\* round(score, 3) on a non-negative score; no score of the model lies on a half
round3(s) == ((s + 5) \div 10) * 10

\* ---------------------------------------------------------------- requests
NoRet == [type |-> "none", val |-> <<>>]
\* A request: where it stands (pc), its handler (op) and argument (subj), the
\* branch r.exists sent it down (hit), its locals (rows, tasks, results), what
\* it answered (ret, err), and two counts kept for the properties: the oracle
\* calls it made (invoked) and the oracle calls, table reads, table writes
\* and cache writes it made (effects).
Idle == [pc |-> "idle", op |-> "none", subj |-> 0, hit |-> FALSE, rows |-> <<>>,
         tasks |-> <<>>, results |-> <<>>, ret |-> NoRet, err |-> "none",
         invoked |-> 0, effects |-> 0]

Task(st, resp, perr) == [st |-> st, resp |-> resp, perr |-> perr]

Pool(p) == DOMAIN proc[p].tasks
Queued(p) == {j \in Pool(p) : proc[p].tasks[j].st = "queued"}
\* a worker thread is busy from the start of its call until the call returns
Busy(p) == {j \in Pool(p) : proc[p].tasks[j].st \in {"running", "hung"}}
Resolved(p) == {j \in Pool(p) : proc[p].tasks[j].st = "done"}

Min(S) == CHOOSE x \in S : \A y \in S : x <= y

\* The order sorted(..., reverse=True) puts the keys in: the positions of
\* keys, by key descending, equal keys in their original order (stable).
RECURSIVE InsertDesc(_, _, _)
InsertDesc(order, i, keys) ==
    IF order = <<>> THEN <<i>>
    ELSE IF keys[Head(order)] >= keys[i] THEN <<Head(order)>> \o InsertDesc(Tail(order), i, keys)
    ELSE <<i>> \o order

RECURSIVE DescOrder(_, _)
DescOrder(keys, n) ==
    IF n = 0 THEN <<>> ELSE InsertDesc(DescOrder(keys, n - 1), n, keys)

\* sorted(s, key=lambda x: x[field], reverse=True)
sorted_reverse(s, field) ==
    LET keys == [i \in 1 .. Len(s) |-> s[i][field]]
        order == DescOrder(keys, Len(s))
    IN [i \in 1 .. Len(s) |-> s[order[i]]]


Set(p, r) == proc' = [proc EXCEPT ![p] = r]
Returned(p, type, val) == [proc[p] EXCEPT !.pc = "returned", !.ret = [type |-> type, val |-> val]]
Raised(p, cause) == [proc[p] EXCEPT !.pc = "raised", !.err = cause]

\* -------------------------------------------------------------------- Init
JobTable(active) == [id \in active \cup {ClosedJob} |-> id \in active]

World(tables, answers) ==
    /\ job \in tables
    /\ oracle = answers
    /\ cache = [k \in {} |-> 0]
    /\ cv_job_matches = <<>>
    /\ nli_analysis = <<>>
    /\ proc = [p \in Procs |-> Idle]

\* two requests running concurrently
Init == World({JobTable(S) : S \in SUBSET (1 .. MaxSharedJobs)}, FewAnswers)
\* two requests, one after the other
InitSeq == World({JobTable(S) : S \in SUBSET (1 .. MaxJobs)}, AllAnswers)
\* one fan-out over more jobs than the pool has workers
InitPool == World({JobTable(1 .. MaxPool)}, FewAnswers)

\* two requests, one after the other, the oracle free to give any number
InitRange == World({JobTable(S) : S \in SUBSET (1 .. MaxSharedJobs)}, WideAnswers)

\* a match an earlier run stored for cv 2 and a job that has since been closed
OldMatch == [cv_id |-> 2, job_id |-> ClosedJob, match_score |-> HighScore]
\* two requests, one after the other, on a match table that may hold that row
InitRank ==
    /\ job \in {JobTable(S) : S \in SUBSET (1 .. MaxJobs)}
    /\ oracle = AllAnswers
    /\ cache = [k \in {} |-> 0]
    /\ cv_job_matches \in {<<>>, <<OldMatch>>}
    /\ nli_analysis = <<>>
    /\ proc = [p \in Procs |-> Idle]

\* --------------------------------------------------------------- job table
\* get_all_jobs(): the enabled, unexpired rows
get_all_jobs == {id \in DOMAIN job : job[id]}
\* get_relative_jobs(job_id): the other enabled, unexpired rows
get_relative_jobs(job_id) == {id \in DOMAIN job : job[id] /\ id # job_id}

\* faulty variant: the submission loop stops one job short
submit_all_but_last(pool) ==
    [j \in {i \in pool : \E k \in pool : k > i} |-> Task("queued", NoAnswer, FALSE)]

\* executor.submit for every job of the pool: every task is queued
submit(pool) == [j \in pool |-> Task("queued", NoAnswer, FALSE)]

\* ------------------------------------------------------ the worker threads
\* faulty variant: a thread per submitted task, whatever max_workers says
worker_start_unbounded(p) ==
    /\ proc[p].pc = "pool"
    /\ Queued(p) # {}
    /\ LET j == Min(Queued(p)) IN
         Set(p, [proc[p] EXCEPT !.tasks[j].st = "running", !.invoked = @ + 1,
                                !.effects = @ + 1])
    /\ UNCHANGED <<job, oracle, cache, cv_job_matches, nli_analysis>>

\* ThreadPoolExecutor(max_workers=5): a free worker takes the oldest queued
\* task (jobs are submitted in table order) and makes its oracle call.
worker_start(p) ==
    /\ proc[p].pc = "pool"
    /\ Queued(p) # {}
    /\ Cardinality(Busy(p)) < max_workers
    /\ LET j == Min(Queued(p)) IN
         Set(p, [proc[p] EXCEPT !.tasks[j].st = "running", !.invoked = @ + 1,
                                !.effects = @ + 1])
    /\ UNCHANGED <<job, oracle, cache, cv_job_matches, nli_analysis>>

\* chain.invoke never returns: the call has no timeout, the worker stays busy
oracle_hang(p) ==
    /\ proc[p].pc \in {"pool", "filter"}
    /\ \E j \in Pool(p) :
         /\ proc[p].tasks[j].st = "running"
         /\ Set(p, [proc[p] EXCEPT !.tasks[j].st = "hung"])
    /\ UNCHANGED <<job, oracle, cache, cv_job_matches, nli_analysis>>

\* faulty variant: the worker lets the exception out and future.result() raises it
collect_reraise(r, j, resp, perr, result) ==
    IF resp.kind # "json" \/ perr
    THEN [r EXCEPT !.tasks[j] = Task("done", resp, perr), !.pc = "raised",
                   !.err = "future.result"]
    ELSE [r EXCEPT !.tasks[j] = Task("done", resp, perr),
                   !.results = IF result = <<>> THEN @ ELSE @ \o result]

\* faulty variant: a pair whose answer failed is queued again, once
collect_retry(r, j, resp, perr, result) ==
    IF resp.kind # "json" /\ r.invoked <= Cardinality(DOMAIN r.tasks)
    THEN [r EXCEPT !.tasks[j] = Task("queued", NoAnswer, FALSE)]
    ELSE [r EXCEPT !.tasks[j] = Task("done", resp, perr),
                   !.results = IF result = <<>> THEN @ ELSE @ \o result]

\* as_completed / future.result(): a task's result is appended when it is one
collect(r, j, resp, perr, result) ==
    [r EXCEPT !.tasks[j] = Task("done", resp, perr),
              !.results = IF result = <<>> THEN @ ELSE @ \o result]

\* ----------------------------------------------------- analyze_cv_with_jobs
\* faulty variant: a per-subject lock, taken at the start of the call
analyze_cv_with_jobs_locked(p) ==
    /\ proc[p].pc = "idle"
    /\ \E cv_id \in CvIds :
         LET hit == r_exists(<<"nli_analysis:cv", cv_id>>) IN
         /\ \A q \in Procs \ {p} :
               (proc[q].op = "analyze" /\ proc[q].subj = cv_id) =>
                   proc[q].pc \in {"returned", "raised", "crashed"}
         /\ Set(p, [Idle EXCEPT !.op = "analyze", !.subj = cv_id, !.hit = hit,
                                !.pc = IF hit THEN "get" ELSE "load"])
    /\ UNCHANGED <<job, oracle, cache, cv_job_matches, nli_analysis>>

analyze_cv_with_jobs(p) ==
    /\ proc[p].pc = "idle"
    /\ \E cv_id \in CvIds :
         LET hit == r_exists(<<"nli_analysis:cv", cv_id>>) IN
         Set(p, [Idle EXCEPT !.op = "analyze", !.subj = cv_id, !.hit = hit,
                             !.pc = IF hit THEN "get" ELSE "load"])
    /\ UNCHANGED <<job, oracle, cache, cv_job_matches, nli_analysis>>

\* faulty variant: a hit also rewrites the recommend alias from the stored analysis
analyze_cv_with_jobs_get_rewrite(p) ==
    /\ proc[p].pc = "get" /\ proc[p].op = "analyze"
    /\ LET key == <<"nli_analysis:cv", proc[p].subj>> IN
         IF r_exists(key)
         THEN /\ Set(p, Returned(p, "list", json_loads(cache[key].val)))
              /\ cache' = r_set(<<"recommend:cv", proc[p].subj>>, cache[key].val, NLI_TTL)
         ELSE /\ Set(p, Raised(p, "TypeError"))
              /\ UNCHANGED cache
    /\ UNCHANGED <<job, oracle, cv_job_matches, nli_analysis>>

analyze_cv_with_jobs_get(p) ==
    /\ proc[p].pc = "get" /\ proc[p].op = "analyze"
    /\ LET key == <<"nli_analysis:cv", proc[p].subj>> IN
         Set(p, IF r_exists(key) THEN Returned(p, "list", json_loads(cache[key].val))
                ELSE Raised(p, "TypeError"))
    /\ UNCHANGED <<job, oracle, cache, cv_job_matches, nli_analysis>>

analyze_cv_with_jobs_submit(p) ==
    /\ proc[p].pc = "load" /\ proc[p].op = "analyze"
    /\ Set(p, [proc[p] EXCEPT !.pc = "pool", !.tasks = submit(get_all_jobs),
                              !.effects = @ + 1])
    /\ UNCHANGED <<job, oracle, cache, cv_job_matches, nli_analysis>>

\* faulty variant: the pair is saved before its score is tested
analyze_single_job_save_all(p) ==
    /\ proc[p].pc = "pool" /\ proc[p].op = "analyze"
    /\ \E j \in Pool(p), resp \in oracle.analyze :
         /\ proc[p].tasks[j].st = "running"
         /\ IF resp.kind = "json"
            THEN /\ cv_job_matches' = Append(cv_job_matches,
                        [cv_id |-> proc[p].subj, job_id |-> j, match_score |-> resp.score])
                 /\ Set(p, [collect(proc[p], j, resp, FALSE,
                                IF cv_job_match(resp.score)
                                THEN <<[job_id |-> j, match_score |-> resp.score]>>
                                ELSE <<>>)
                              EXCEPT !.effects = @ + 1])
            ELSE /\ Set(p, collect(proc[p], j, resp, FALSE, <<>>))
                 /\ UNCHANGED cv_job_matches
    /\ UNCHANGED <<job, oracle, cache, nli_analysis>>

\* one call of analyze_single_job on a worker, from the oracle's answer on
analyze_single_job(p) ==
    /\ proc[p].pc = "pool" /\ proc[p].op = "analyze"
    /\ \E j \in Pool(p), resp \in oracle.analyze, db_ok \in BOOLEAN :
         /\ proc[p].tasks[j].st = "running"
         /\ IF resp.kind = "json" /\ cv_job_match(resp.score)
            THEN IF db_ok
                 THEN /\ cv_job_matches' = Append(cv_job_matches,
                             [cv_id |-> proc[p].subj, job_id |-> j, match_score |-> resp.score])
                      /\ Set(p, [collect(proc[p], j, resp, FALSE,
                                     <<[job_id |-> j, match_score |-> resp.score]>>)
                                   EXCEPT !.effects = @ + 1])
                 ELSE /\ Set(p, collect(proc[p], j, resp, TRUE, <<>>))
                      /\ UNCHANGED cv_job_matches
            ELSE /\ db_ok
                 /\ Set(p, collect(proc[p], j, resp, FALSE, <<>>))
                 /\ UNCHANGED cv_job_matches
    /\ UNCHANGED <<job, oracle, cache, nli_analysis>>

\* faulty variant: the run goes on as soon as the first task has resolved
analyze_cv_with_jobs_save_early(p) ==
    /\ proc[p].pc = "pool" /\ proc[p].op = "analyze"
    /\ Resolved(p) # {}
    /\ LET sorted_results == sorted_reverse(proc[p].results, "match_score") IN
       \E db_ok \in BOOLEAN :
         IF db_ok
         THEN /\ nli_analysis' = Append(nli_analysis,
                     [cv_id |-> proc[p].subj, analysis |-> json_dumps(sorted_results)])
              /\ Set(p, [proc[p] EXCEPT !.pc = "set", !.results = sorted_results,
                                        !.effects = @ + 1])
         ELSE /\ Set(p, Raised(p, "save_nli_analysis"))
              /\ UNCHANGED nli_analysis
    /\ UNCHANGED <<job, oracle, cache, cv_job_matches>>

\* faulty variant: the cache entry is written first, the snapshot left for later
analyze_cv_with_jobs_save_cache_first(p) ==
    /\ proc[p].pc = "pool" /\ proc[p].op = "analyze"
    /\ Resolved(p) = Pool(p)
    /\ LET sorted_results == sorted_reverse(proc[p].results, "match_score") IN
       \E redis_ok \in BOOLEAN :
         IF redis_ok
         THEN /\ cache' = r_set(<<"nli_analysis:cv", proc[p].subj>>,
                                json_dumps(sorted_results), NLI_TTL)
              /\ Set(p, [proc[p] EXCEPT !.pc = "set", !.results = sorted_results,
                                        !.effects = @ + 1])
         ELSE /\ Set(p, Raised(p, "r.set"))
              /\ UNCHANGED cache
    /\ UNCHANGED <<job, oracle, cv_job_matches, nli_analysis>>

\* the pool is joined (every task resolved), the results sorted, the snapshot saved
analyze_cv_with_jobs_save(p) ==
    /\ proc[p].pc = "pool" /\ proc[p].op = "analyze"
    /\ Resolved(p) = Pool(p)
    /\ LET sorted_results == sorted_reverse(proc[p].results, "match_score") IN
       \E db_ok \in BOOLEAN :
         IF db_ok
         THEN /\ nli_analysis' = Append(nli_analysis,
                     [cv_id |-> proc[p].subj, analysis |-> json_dumps(sorted_results)])
              /\ Set(p, [proc[p] EXCEPT !.pc = "set", !.results = sorted_results,
                                        !.effects = @ + 1])
         ELSE /\ Set(p, Raised(p, "save_nli_analysis"))
              /\ UNCHANGED nli_analysis
    /\ UNCHANGED <<job, oracle, cache, cv_job_matches>>

analyze_cv_with_jobs_set(p) ==
    /\ proc[p].pc = "set" /\ proc[p].op = "analyze"
    /\ \E redis_ok \in BOOLEAN :
         IF redis_ok
         THEN /\ cache' = r_set(<<"nli_analysis:cv", proc[p].subj>>,
                                json_dumps(proc[p].results), NLI_TTL)
              /\ Set(p, [proc[p] EXCEPT !.pc = "set2", !.effects = @ + 1])
         ELSE /\ Set(p, Raised(p, "r.set"))
              /\ UNCHANGED cache
    /\ UNCHANGED <<job, oracle, cv_job_matches, nli_analysis>>

analyze_cv_with_jobs_set2(p) ==
    /\ proc[p].pc = "set2" /\ proc[p].op = "analyze"
    /\ \E redis_ok \in BOOLEAN :
         IF redis_ok
         THEN /\ cache' = r_set(<<"recommend:cv", proc[p].subj>>,
                                json_dumps(proc[p].results), NLI_TTL)
              /\ Set(p, [Returned(p, "list", proc[p].results) EXCEPT !.effects = @ + 1])
         ELSE /\ Set(p, Raised(p, "r.set"))
              /\ UNCHANGED cache
    /\ UNCHANGED <<job, oracle, cv_job_matches, nli_analysis>>

\* ------------------------------------------------------------ related_jobs
related_jobs(p) ==
    /\ proc[p].pc = "idle"
    /\ \E job_id \in DOMAIN job \cup {MissingJob} :
         LET hit == r_exists(<<"related_jobs", job_id>>) IN
         Set(p, [Idle EXCEPT !.op = "related", !.subj = job_id, !.hit = hit,
                             !.pc = IF hit THEN "get" ELSE "load"])
    /\ UNCHANGED <<job, oracle, cache, cv_job_matches, nli_analysis>>

\* faulty variant: the stored string is returned as it is, not decoded
related_jobs_get_raw(p) ==
    /\ proc[p].pc = "get" /\ proc[p].op = "related"
    /\ LET key == <<"related_jobs", proc[p].subj>> IN
         Set(p, IF r_exists(key) THEN Returned(p, "str", cache[key].val)
                ELSE Raised(p, "TypeError"))
    /\ UNCHANGED <<job, oracle, cache, cv_job_matches, nli_analysis>>

related_jobs_get(p) ==
    /\ proc[p].pc = "get" /\ proc[p].op = "related"
    /\ LET key == <<"related_jobs", proc[p].subj>> IN
         Set(p, IF r_exists(key) THEN Returned(p, "list", json_loads(cache[key].val))
                ELSE Raised(p, "TypeError"))
    /\ UNCHANGED <<job, oracle, cache, cv_job_matches, nli_analysis>>

\* faulty variant: the subject row is not looked up, the fan-out goes ahead
related_jobs_submit_unchecked(p) ==
    /\ proc[p].pc = "load" /\ proc[p].op = "related"
    /\ Set(p, [proc[p] EXCEPT !.pc = "pool", !.effects = @ + 1,
                              !.tasks = submit(get_relative_jobs(proc[p].subj))])
    /\ UNCHANGED <<job, oracle, cache, cv_job_matches, nli_analysis>>

\* get_relative_jobs raises HTTPException(404) when the job row is missing
related_jobs_submit(p) ==
    /\ proc[p].pc = "load" /\ proc[p].op = "related"
    /\ Set(p, IF proc[p].subj \in DOMAIN job
              THEN [proc[p] EXCEPT !.pc = "pool", !.effects = @ + 1,
                                   !.tasks = submit(get_relative_jobs(proc[p].subj))]
              ELSE Raised(p, "HTTPException 404"))
    /\ UNCHANGED <<job, oracle, cache, cv_job_matches, nli_analysis>>

\* one call of the nested analyze_job on a worker, from the oracle's answer on
analyze_job(p) ==
    /\ proc[p].pc = "pool" /\ proc[p].op = "related"
    /\ \E j \in Pool(p), resp \in oracle.related :
         /\ proc[p].tasks[j].st = "running"
         /\ Set(p, collect(proc[p], j, resp, FALSE,
                     IF resp.kind = "json" /\ related_match(resp.score)
                     THEN <<[jobId |-> j, score |-> round3(resp.score)]>> ELSE <<>>))
    /\ UNCHANGED <<job, oracle, cache, cv_job_matches, nli_analysis>>

related_jobs_setex(p) ==
    /\ proc[p].pc = "pool" /\ proc[p].op = "related"
    /\ Resolved(p) = Pool(p)
    /\ LET results == sorted_reverse(proc[p].results, "score") IN
       \E redis_ok \in BOOLEAN :
         IF redis_ok
         THEN /\ cache' = r_set(<<"related_jobs", proc[p].subj>>, json_dumps(results), RELATED_TTL)
              /\ Set(p, [Returned(p, "list", results) EXCEPT !.results = results,
                                                             !.effects = @ + 1])
         ELSE /\ Set(p, Raised(p, "r.setex"))
              /\ UNCHANGED cache
    /\ UNCHANGED <<job, oracle, cv_job_matches, nli_analysis>>

\* --------------------------------------------------- recommend_jobs_for_cv
recommend_jobs_for_cv(p) ==
    /\ proc[p].pc = "idle"
    /\ \E cv_id \in CvIds :
         LET hit == r_exists(<<"recommend:cv", cv_id>>) IN
         Set(p, [Idle EXCEPT !.op = "recommend", !.subj = cv_id, !.hit = hit,
                             !.pc = IF hit THEN "get" ELSE "query"])
    /\ UNCHANGED <<job, oracle, cache, cv_job_matches, nli_analysis>>

\* red.get(cache_key).decode(): the stored string, as it is
recommend_jobs_for_cv_get(p) ==
    /\ proc[p].pc = "get" /\ proc[p].op = "recommend"
    /\ LET key == <<"recommend:cv", proc[p].subj>> IN
         Set(p, IF r_exists(key) THEN Returned(p, "str", cache[key].val)
                ELSE Raised(p, "AttributeError"))
    /\ UNCHANGED <<job, oracle, cache, cv_job_matches, nli_analysis>>

\* ORDER BY match_score DESC: rows of equal score come in any order
DescOrders(keys) ==
    LET n == Len(keys) IN
    {f \in [1 .. n -> 1 .. n] :
        /\ \A i, k \in 1 .. n : i # k => f[i] # f[k]
        /\ \A i \in 1 .. n - 1 : keys[f[i]] >= keys[f[i + 1]]}

\* SELECT job_id, match_score FROM cv_job_matches WHERE cv_id = %s
\*   ORDER BY match_score DESC LIMIT 10, as the result list it is turned into
select_matches(cv_id) ==
    LET mine == SelectSeq(cv_job_matches, LAMBDA row : row.cv_id = cv_id)
        keys == [i \in 1 .. Len(mine) |-> mine[i].match_score]
        n == IF Len(mine) < RECOMMEND_LIMIT THEN Len(mine) ELSE RECOMMEND_LIMIT
    IN {[i \in 1 .. n |-> [job_id |-> mine[f[i]].job_id, score |-> mine[f[i]].match_score]] :
           f \in DescOrders(keys)}

recommend_jobs_for_cv_query(p) ==
    /\ proc[p].pc = "query" /\ proc[p].op = "recommend"
    /\ \E result \in select_matches(proc[p].subj) :
         Set(p, [proc[p] EXCEPT !.pc = "set", !.results = result, !.effects = @ + 1])
    /\ UNCHANGED <<job, oracle, cache, cv_job_matches, nli_analysis>>

recommend_jobs_for_cv_set(p) ==
    /\ proc[p].pc = "set" /\ proc[p].op = "recommend"
    /\ \E redis_ok \in BOOLEAN :
         IF redis_ok
         THEN /\ cache' = r_set(<<"recommend:cv", proc[p].subj>>,
                                json_dumps(proc[p].results), NO_TTL)
              /\ Set(p, [Returned(p, "str", json_dumps(proc[p].results))
                           EXCEPT !.effects = @ + 1])
         ELSE /\ Set(p, Raised(p, "red.set"))
              /\ UNCHANGED cache
    /\ UNCHANGED <<job, oracle, cv_job_matches, nli_analysis>>

\* -------------------------------------------------------- filter_candidates
\* get_cv_for_filter(): SELECT cv_id, cv_text FROM cv_job_matches, one row per
\* stored match; then one oracle call per row, one after the other.
filter_candidates(p) ==
    /\ proc[p].pc = "idle"
    /\ LET rows == [i \in 1 .. Len(cv_job_matches) |-> cv_job_matches[i].cv_id] IN
         Set(p, [Idle EXCEPT !.op = "filter", !.pc = "filter", !.rows = rows,
                             !.tasks = submit(1 .. Len(rows)), !.effects = 1])
    /\ UNCHANGED <<job, oracle, cache, cv_job_matches, nli_analysis>>

filter_candidates_invoke(p) ==
    /\ proc[p].pc = "filter"
    /\ Queued(p) # {} /\ Busy(p) = {}
    /\ Set(p, [proc[p] EXCEPT !.tasks[Min(Queued(p))].st = "running", !.invoked = @ + 1,
                              !.effects = @ + 1])
    /\ UNCHANGED <<job, oracle, cache, cv_job_matches, nli_analysis>>

\* faulty variant: the entries are kept in a list, a better score is added to it
best_scores_append(best, entry) == Append(best, entry)

\* best_scores[cv_id] = entry: a new key goes last, a known key keeps its place
best_scores_put(best, entry) ==
    IF \E k \in 1 .. Len(best) : best[k].cv_id = entry.cv_id
    THEN [k \in 1 .. Len(best) |-> IF best[k].cv_id = entry.cv_id THEN entry ELSE best[k]]
    ELSE Append(best, entry)

\* the body of the loop for row i, from the oracle's answer on
filter_candidates_row(p) ==
    /\ proc[p].pc = "filter"
    /\ \E i \in Pool(p), resp \in oracle.filter :
         /\ proc[p].tasks[i].st = "running"
         /\ LET cv_id == proc[p].rows[i]
                best == proc[p].results
                keep == /\ resp.kind = "json"
                        /\ filter_match(resp.score)
                        /\ \A k \in 1 .. Len(best) :
                              best[k].cv_id = cv_id => resp.score > best[k].match_score
            IN Set(p, [proc[p] EXCEPT
                   !.tasks[i] = Task("done", resp, FALSE),
                   !.results = IF keep
                               THEN best_scores_put(best, [cv_id |-> cv_id, match_score |-> resp.score])
                               ELSE best])
    /\ UNCHANGED <<job, oracle, cache, cv_job_matches, nli_analysis>>

filter_candidates_return(p) ==
    /\ proc[p].pc = "filter"
    /\ Resolved(p) = Pool(p)
    /\ Set(p, Returned(p, "dict", sorted_reverse(proc[p].results, "match_score")))
    /\ UNCHANGED <<job, oracle, cache, cv_job_matches, nli_analysis>>

\* ---------------------------------------------------- cache administration
\* redis_client.delete(key); of an absent key it deletes nothing and changes nothing
delete_cache ==
    /\ \E key \in DOMAIN cache : cache' = r_delete(key)
    /\ UNCHANGED <<job, oracle, cv_job_matches, nli_analysis, proc>>

\* Redis drops an entry whose TTL has run out
expire ==
    /\ \E key \in DOMAIN cache :
         /\ cache[key].ttl # NO_TTL
         /\ cache' = r_delete(key)
    /\ UNCHANGED <<job, oracle, cv_job_matches, nli_analysis, proc>>

\* the request dies between two steps (worker killed, connection lost)
crash(p) ==
    /\ proc[p].pc \notin {"idle", "returned", "raised", "crashed"}
    /\ Set(p, [Idle EXCEPT !.pc = "crashed", !.op = proc[p].op, !.subj = proc[p].subj])
    /\ UNCHANGED <<job, oracle, cache, cv_job_matches, nli_analysis>>

\* ---------------------------------------------------------- specifications
FanOutCall(p) ==
    \/ analyze_cv_with_jobs(p)
    \/ related_jobs(p)

ReadCall(p) ==
    \/ recommend_jobs_for_cv(p)
    \/ filter_candidates(p)

FanOut(p) ==
    \/ worker_start(p) \/ oracle_hang(p)
    \/ analyze_cv_with_jobs_submit(p) \/ analyze_single_job(p)
    \/ analyze_cv_with_jobs_save(p) \/ analyze_cv_with_jobs_set(p)
    \/ analyze_cv_with_jobs_set2(p)
    \/ related_jobs_submit(p) \/ analyze_job(p) \/ related_jobs_setex(p)

Read(p) ==
    \/ recommend_jobs_for_cv_get(p) \/ recommend_jobs_for_cv_query(p)
    \/ recommend_jobs_for_cv_set(p)
    \/ filter_candidates_invoke(p) \/ filter_candidates_row(p)
    \/ filter_candidates_return(p)

Hit(p) ==
    \/ analyze_cv_with_jobs_get(p)
    \/ related_jobs_get(p)

Finished(p) == proc[p].pc \in {"returned", "raised", "crashed"}
\* the requests are interchangeable: they arrive in the order 1, 2
Earlier(p) == {q \in Procs : q < p}
Arrived(p) == \A q \in Earlier(p) : proc[q].pc # "idle"
Alone(p) == \A q \in Earlier(p) : Finished(q)

\* the server: two requests of any kind, overlapping in any way
Next ==
    \/ \E p \in Procs :
         \/ Arrived(p) /\ (FanOutCall(p) \/ ReadCall(p))
         \/ FanOut(p) \/ Read(p) \/ Hit(p)
         \/ crash(p)
    \/ delete_cache
    \/ expire
Spec == Init /\ [][Next]_vars

\* a fan-out request, then a read of what it left in the tables and the cache
NextSeq ==
    \/ FanOutCall(1) \/ FanOut(1)
    \/ (Alone(2) /\ ReadCall(2)) \/ Read(2) \/ oracle_hang(2)
SeqSpec == InitSeq /\ [][NextSeq]_vars
\* ... where every thread that can take a step takes one, and the oracle
\* answers every call it has not hung on
FairSeqSpec == SeqSpec /\ WF_vars(NextSeq)

\* the same two requests on a match table with history
RankSpec == InitRank /\ [][NextSeq]_vars

\* the same two requests with an oracle whose scores may lie outside [0, 1]
RangeSpec == InitRange /\ [][NextSeq]_vars

\* one fan-out request
NextPool == FanOutCall(1) \/ FanOut(1)
PoolSpec == InitPool /\ [][NextPool]_vars

\* ================================================================== claims
\* a request that missed the cache and fanned out
FanOutRun(p) ==
    /\ proc[p].op \in {"analyze", "related"}
    /\ ~proc[p].hit
    /\ proc[p].pc \in {"pool", "set", "set2", "returned", "raised"}
    /\ proc[p].err # "HTTPException 404"
\* ... and is past the pool: it has sorted, and written or tried to
Joined(p) == FanOutRun(p) /\ proc[p].pc # "pool"
Answered(p) == proc[p].pc = "returned"
WriteErrors == {"save_nli_analysis", "r.set", "r.setex"}

Candidates(p) ==
    IF proc[p].op = "analyze" THEN get_all_jobs ELSE get_relative_jobs(proc[p].subj)
Threshold(p) ==
    CASE proc[p].op = "analyze" -> CV_JOB_THRESHOLD
      [] proc[p].op = "related" -> RELATED_THRESHOLD
      [] OTHER -> FILTER_THRESHOLD

\* what became of the pair (subject of p, j)
Failed(p, j) ==
    /\ proc[p].tasks[j].st = "done"
    /\ proc[p].tasks[j].resp.kind \in {"exception", "unparseable"}
Parsed(p, j) == proc[p].tasks[j].st = "done" /\ proc[p].tasks[j].resp.kind = "json"
Qualifies(p, j) == Parsed(p, j) /\ proc[p].tasks[j].resp.score >= Threshold(p)
Good(p, j) == Qualifies(p, j) /\ ~proc[p].tasks[j].perr

\* the candidate identities of a result list
IdOf(e) ==
    IF "job_id" \in DOMAIN e THEN e.job_id
    ELSE IF "jobId" \in DOMAIN e THEN e.jobId ELSE e.cv_id
Ids(list) == {IdOf(list[i]) : i \in 1 .. Len(list)}

\* C1: a fan-out run resolves exactly one outcome per (subject, candidate)
\* pair of the pool it loaded: once it is past the pool, the resolved tasks
\* are exactly the candidates, N of them, and the oracle was called N times.
C1_OneOutcomePerPair ==
    \A p \in Procs :
        /\ FanOutRun(p) => Pool(p) = Candidates(p)
        /\ Joined(p) =>
              /\ Resolved(p) = Candidates(p)
              /\ Cardinality(Resolved(p)) = Cardinality(Candidates(p))
              /\ proc[p].invoked = Cardinality(Candidates(p))
C1_Witness ==
    \E p \in Procs :
        /\ Joined(p)
        /\ \E j, k \in Pool(p) : Failed(p, j) /\ Good(p, k)

\* C2: a pair that failed (oracle exception, unparseable answer) aborts
\* neither the run nor its siblings: every task is still resolved, the run
\* raises only for a failed table or cache write, and every pair that was
\* evaluated to a score at or above the threshold is in the result.
C2_PairFailureIsolated ==
    \A p \in Procs :
        (FanOutRun(p) /\ \E j \in Pool(p) : Failed(p, j)) =>
            /\ proc[p].pc = "raised" => proc[p].err \in WriteErrors /\ Resolved(p) = Pool(p)
            /\ Joined(p) /\ proc[p].pc # "raised" =>
                  \A k \in Pool(p) : Good(p, k) => k \in Ids(proc[p].results)
            /\ Answered(p) =>
                  \A k \in Pool(p) : Good(p, k) => k \in Ids(proc[p].ret.val)
C2_Witness ==
    \E p \in Procs :
        /\ FanOutRun(p) /\ Answered(p)
        /\ \E j, k \in Pool(p) :
              Failed(p, j) /\ Good(p, k) /\ k \in Ids(proc[p].ret.val)

\* C3: every fan-out run eventually answers (returns or raises), an oracle
\* call that never responds being resolved by a timeout.
C3_EveryRunReturns ==
    \A p \in Procs :
        (FanOutRun(p) /\ proc[p].pc = "pool") ~> (proc[p].pc \in {"returned", "raised"})
\* what the code does instead: a run is held up only by a call that hangs
ReturnsUnlessHung ==
    \A p \in Procs :
        (FanOutRun(p) /\ proc[p].pc = "pool")
            ~> (\/ proc[p].pc \in {"returned", "raised"}
                \/ \E j \in Pool(p) : proc[p].tasks[j].st = "hung")

\* C4: once the fan-out is complete the ranked result is returned, also when
\* the snapshot write or a cache write fails: the run never ends in an error.
C4_WriteFailureStillReturns ==
    \A p \in Procs : Joined(p) => proc[p].pc # "raised"

\* C5: in the CV-vs-job pipeline every pair whose answer parses to a score
\* at or above the threshold is in the returned result, also when its
\* save_cv_job_matches write failed.
C5_MatchKeptWhenWriteFails ==
    \A p \in Procs :
        (FanOutRun(p) /\ proc[p].op = "analyze" /\ Answered(p)) =>
            \A j \in Pool(p) : Qualifies(p, j) => j \in Ids(proc[p].ret.val)

\* C6: whenever nli_analysis:cv:{id} and recommend:cv:{id} are both in the
\* cache, they hold the same payload.
C6_AliasInSync ==
    \A cv_id \in CvIds :
        (r_exists(<<"nli_analysis:cv", cv_id>>) /\ r_exists(<<"recommend:cv", cv_id>>)) =>
            cache[<<"nli_analysis:cv", cv_id>>].val = cache[<<"recommend:cv", cv_id>>].val

\* C7: a request of analyze_cv_with_jobs or related_jobs that hit the cache
\* calls no oracle, loads no pool and writes nothing; its fetch leaves the
\* tables and every cache entry as they are and returns the stored list.
HitKey(p) ==
    <<IF proc[p].op = "analyze" THEN "nli_analysis:cv" ELSE "related_jobs", proc[p].subj>>
HitRun(p) == proc[p].op \in {"analyze", "related"} /\ proc[p].hit
C7_CacheHitFrame ==
    /\ [](\A p \in Procs :
            HitRun(p) => proc[p].effects = 0 /\ proc[p].invoked = 0 /\ proc[p].tasks = <<>>)
    /\ [][\A p \in Procs :
            (HitRun(p) /\ proc[p] # proc'[p]) =>
                /\ UNCHANGED <<cache, cv_job_matches, nli_analysis>>
                /\ proc'[p].pc = "returned" =>
                      /\ r_exists(HitKey(p))
                      /\ proc'[p].ret.val = json_loads(cache[HitKey(p)].val)
                /\ proc'[p].pc = "raised" => ~r_exists(HitKey(p))]_vars
C7_Witness ==
    \E p \in Procs : HitRun(p) /\ proc[p].pc = "returned" /\ proc[p].ret.val # <<>>

\* C8: a run sorts, saves its snapshot, fills the cache and returns only
\* after every submitted task has resolved, first failure or not; what it
\* saves, caches and returns is built from all the outcomes, never a part.
Matches(p) == {j \in Pool(p) : Good(p, j)}
OwnKeys(p) ==
    IF proc[p].op = "analyze"
    THEN {<<"nli_analysis:cv", proc[p].subj>>, <<"recommend:cv", proc[p].subj>>}
    ELSE {<<"related_jobs", proc[p].subj>>}
C8_WritesAfterAllResolved ==
    \A p \in Procs :
        (FanOutRun(p) \/ (proc[p].op \in {"analyze", "related"} /\ proc[p].pc = "load")) =>
            /\ Joined(p) => Resolved(p) = Pool(p)
            /\ Joined(p) /\ proc[p].pc # "raised" => Ids(proc[p].results) = Matches(p)
            /\ Answered(p) => Ids(proc[p].ret.val) = Matches(p)
            /\ \A key \in OwnKeys(p) \cap DOMAIN cache :
                  /\ Joined(p) /\ Resolved(p) = Pool(p)
                  /\ Ids(json_loads(cache[key].val)) = Matches(p)
            /\ \A i \in 1 .. Len(nli_analysis) :
                  (proc[p].op = "analyze" /\ nli_analysis[i].cv_id = proc[p].subj) =>
                      /\ Joined(p) /\ Resolved(p) = Pool(p)
                      /\ Ids(json_loads(nli_analysis[i].analysis)) = Matches(p)
C8_Witness ==
    \E p \in Procs :
        /\ FanOutRun(p) /\ Answered(p)
        /\ \E j, k \in Pool(p) : Failed(p, j) /\ Good(p, k)
        /\ \E key \in OwnKeys(p) \cap DOMAIN cache : json_loads(cache[key].val) # <<>>

\* C9: at every moment of a fan-out at most max_workers (5) oracle calls
\* are in progress; the other submitted tasks wait in the queue.
C9_AtMostFiveInProgress ==
    \A p \in Procs : Cardinality(Busy(p)) <= max_workers
C9_Witness ==
    \E p \in Procs : Cardinality(Busy(p)) = max_workers /\ Queued(p) # {}

\* C10: the threshold is inclusive.  A pair whose answer parsed to score s
\* (and whose match write, if any, succeeded) is in the result exactly when
\* s >= the threshold of its pipeline (0.5, 0.4; 0.6 for the filter, whose
\* result holds a cv_id exactly when one of its rows reached 0.6).
C10_ThresholdInclusive ==
    \A p \in Procs :
        /\ (FanOutRun(p) /\ Answered(p)) =>
              \A j \in Pool(p) :
                  (Parsed(p, j) /\ ~proc[p].tasks[j].perr) =>
                      (j \in Ids(proc[p].ret.val)
                          <=> proc[p].tasks[j].resp.score >= Threshold(p))
        /\ (proc[p].op = "filter" /\ Answered(p)) =>
              \A cv_id \in CvIds :
                  cv_id \in Ids(proc[p].ret.val)
                      <=> \E i \in Pool(p) :
                             /\ proc[p].rows[i] = cv_id /\ Parsed(p, i)
                             /\ proc[p].tasks[i].resp.score >= FILTER_THRESHOLD
C10_Witness ==
    /\ proc[1].op = "analyze" /\ Answered(1)
    /\ \E j, k \in Pool(1) :
          /\ Parsed(1, j) /\ proc[1].tasks[j].resp.score = CV_JOB_THRESHOLD
          /\ j \in Ids(proc[1].ret.val)
          /\ Parsed(1, k) /\ proc[1].tasks[k].resp.score = CV_JOB_THRESHOLD - 1
          /\ k \notin Ids(proc[1].ret.val)
    /\ proc[2].op = "filter" /\ Answered(2)
    /\ \E i \in Pool(2) :
          /\ Parsed(2, i) /\ proc[2].tasks[i].resp.score = FILTER_THRESHOLD
          /\ proc[2].rows[i] \in Ids(proc[2].ret.val)

\* C11: the list each of the three pipelines returns, and every list the
\* cache holds, is sorted non-increasing by score: of two adjacent entries
\* the earlier one's score is >= the later one's.
ScoreOf(e) == IF "match_score" \in DOMAIN e THEN e.match_score ELSE e.score
NonIncreasing(list) ==
    \A i \in 1 .. Len(list) - 1 : ScoreOf(list[i]) >= ScoreOf(list[i + 1])
C11_SortedByScore ==
    /\ \A p \in Procs :
          (proc[p].op \in {"analyze", "related", "filter"} /\ Answered(p)) =>
              NonIncreasing(proc[p].ret.val)
    /\ \A key \in DOMAIN cache : NonIncreasing(json_loads(cache[key].val))
C11_Witness ==
    /\ FanOutRun(1) /\ Answered(1)
    /\ Len(proc[1].ret.val) = 2
    /\ ScoreOf(proc[1].ret.val[1]) > ScoreOf(proc[1].ret.val[2])
    /\ IdOf(proc[1].ret.val[1]) > IdOf(proc[1].ret.val[2])
    /\ json_loads(cache[HitKey(1)].val) = proc[1].ret.val
    /\ proc[2].op = "filter" /\ Answered(2)
    /\ Len(proc[2].ret.val) = 2
    /\ ScoreOf(proc[2].ret.val[1]) > ScoreOf(proc[2].ret.val[2])

\* C12: the ranking does not depend on scheduling: in the list a fan-out
\* run returns, two adjacent entries of equal score stand in ascending order
\* of candidate identity, whatever order the evaluations completed in.
C12_TiesByIdentity ==
    \A p \in Procs :
        (FanOutRun(p) /\ Answered(p)) =>
            \A i \in 1 .. Len(proc[p].ret.val) - 1 :
                ScoreOf(proc[p].ret.val[i]) = ScoreOf(proc[p].ret.val[i + 1]) =>
                    IdOf(proc[p].ret.val[i]) < IdOf(proc[p].ret.val[i + 1])

\* C13: a list returned by one of the three pipelines holds at most one
\* entry per candidate identity; the entry filter_candidates keeps for a cv_id
\* carries the highest score among the evaluations of that cv_id's rows that
\* reached the threshold.
Reached(p, cv_id) ==
    {i \in Pool(p) : /\ proc[p].rows[i] = cv_id /\ Parsed(p, i)
                     /\ proc[p].tasks[i].resp.score >= FILTER_THRESHOLD}
C13_OneEntryPerCandidate ==
    \A p \in Procs :
        (proc[p].op \in {"analyze", "related", "filter"} /\ Answered(p)) =>
            LET list == proc[p].ret.val IN
            /\ \A i, k \in 1 .. Len(list) : i # k => IdOf(list[i]) # IdOf(list[k])
            /\ proc[p].op = "filter" =>
                  \A i \in 1 .. Len(list) :
                      /\ \E t \in Reached(p, list[i].cv_id) :
                            list[i].match_score = proc[p].tasks[t].resp.score
                      /\ \A t \in Reached(p, list[i].cv_id) :
                            list[i].match_score >= proc[p].tasks[t].resp.score
C13_Witness ==
    \E p \in Procs :
        /\ proc[p].op = "filter" /\ Answered(p)
        /\ Len(proc[p].ret.val) = 2
        /\ \E t, u \in Reached(p, proc[p].ret.val[1].cv_id) :
              /\ t < u
              /\ proc[p].tasks[t].resp.score < proc[p].tasks[u].resp.score

\* C14: related_jobs of a job id that has no row, on a cache miss, ends in
\* the not-found error with no oracle call made and no task submitted, and
\* no related_jobs:{id} entry ever exists for that id.
NoSuchJob(p) == proc[p].op = "related" /\ proc[p].subj \notin DOMAIN job
C14_NotFoundAborts ==
    /\ \A p \in Procs :
          (NoSuchJob(p) /\ ~proc[p].hit) =>
              /\ proc[p].invoked = 0 /\ proc[p].tasks = <<>> /\ proc[p].results = <<>>
              /\ proc[p].pc \in {"load", "raised", "crashed"}
              /\ proc[p].pc = "raised" => proc[p].err = "HTTPException 404"
    /\ \A key \in DOMAIN cache : key[1] = "related_jobs" => key[2] \in DOMAIN job
C14_Witness ==
    \E p \in Procs :
        /\ NoSuchJob(p) /\ proc[p].pc = "raised" /\ proc[p].err = "HTTPException 404"
        /\ \E key \in DOMAIN cache : key[1] = "related_jobs"

\* C15: cache round trip.  A miss-run stores its result R under its key with
\* the TTL of the pipeline (1800 for nli_analysis:cv:{id}, 10800 for
\* related_jobs:{id}); the entry stays as written until it expires or is
\* deleted, and a call that finds it returns a value equal to R; a call that
\* finds the key absent (expired, deleted, never written) recomputes.
TtlOf(key) == IF key[1] = "related_jobs" THEN RELATED_TTL ELSE NLI_TTL
PipelineKeys == {key \in DOMAIN cache : key[1] \in {"nli_analysis:cv", "related_jobs"}}
Writers(p) ==
    {q \in Procs \ {p} : /\ proc[q].op = proc[p].op /\ proc[q].subj = proc[p].subj
                         /\ ~proc[q].hit}
Pairs(list) == [i \in 1 .. Len(list) |-> <<IdOf(list[i]), ScoreOf(list[i])>>]
C16_TopTenOfStore ==
    \A p \in Procs :
        (proc[p].op = "recommend" /\ Answered(p)) =>
            LET list == json_loads(proc[p].ret.val) IN
            /\ Len(list) <= RECOMMEND_LIMIT
            /\ NonIncreasing(list)
            /\ Pairs(list) \in {Pairs(top) : top \in select_matches(proc[p].subj)}

\* C17: runs for the same subject are not mutually excluded.  Whatever the
\* other request is doing, a call for a cv_id whose key is absent is let in
\* and takes the miss path, and a run that missed is free to fan out; every
\* run appends its own row for a pair it matched, so the match table holds
\* as many rows for a pair as there were runs that matched it.
RowsOf(cv_id, j) ==
    {i \in 1 .. Len(cv_job_matches) :
        cv_job_matches[i].cv_id = cv_id /\ cv_job_matches[i].job_id = j}
RunsThatMatched(cv_id, j) ==
    {p \in Procs : /\ proc[p].op = "analyze" /\ proc[p].subj = cv_id
                   /\ j \in Pool(p) /\ Good(p, j)}
C17_NoMutualExclusion ==
    /\ \A p \in Procs, cv_id \in CvIds :
          (proc[p].pc = "idle" /\ ~r_exists(<<"nli_analysis:cv", cv_id>>)) =>
              ENABLED (/\ analyze_cv_with_jobs(p)
                       /\ proc'[p].subj = cv_id /\ proc'[p].pc = "load")
    /\ \A p \in Procs :
          (proc[p].pc = "load" /\ proc[p].op = "analyze") =>
              ENABLED analyze_cv_with_jobs_submit(p)
    /\ (\A p \in Procs : proc[p].pc # "crashed") =>
          \A cv_id \in CvIds, j \in DOMAIN job :
              Cardinality(RowsOf(cv_id, j)) = Cardinality(RunsThatMatched(cv_id, j))
C17_Witness ==
    \E cv_id \in CvIds, j \in DOMAIN job :
        /\ \A p \in Procs :
              /\ proc[p].op = "analyze" /\ proc[p].subj = cv_id /\ ~proc[p].hit
              /\ j \in Resolved(p) /\ proc[p].invoked >= 1
        /\ Cardinality(RowsOf(cv_id, j)) = 2

\* C18: every entry that is returned, cached or persisted has a score within
\* [0, 1]: an answer whose score is below 0 or above 1 produces no entry.
InRange(list) ==
    \A i \in 1 .. Len(list) : ScoreOf(list[i]) >= 0 /\ ScoreOf(list[i]) <= MaxScore
C18_ScoresInUnitRange ==
    /\ \A p \in Procs :
          /\ InRange(proc[p].results)
          /\ Answered(p) =>
                InRange(IF proc[p].ret.type = "str" THEN json_loads(proc[p].ret.val)
                        ELSE proc[p].ret.val)
    /\ \A key \in DOMAIN cache : InRange(json_loads(cache[key].val))
    /\ InRange(cv_job_matches)
    /\ \A i \in 1 .. Len(nli_analysis) : InRange(json_loads(nli_analysis[i].analysis))

\* C19: within one run the oracle is called exactly once for each pair: the
\* calls made are as many as the pairs taken up, a pair is resolved only by
\* the answer to its call, and a resolved pair, failed or not, is never
\* taken up again.
Evaluating(p) == proc[p].op \in {"analyze", "related", "filter"}
C19_OneCallPerPair ==
    /\ [](\A p \in Procs :
            Evaluating(p) => proc[p].invoked = Cardinality(Pool(p) \ Queued(p)))
    /\ [][\A p \in Procs :
            \A j \in Pool(p) \cap DOMAIN proc'[p].tasks :
                LET old == proc[p].tasks[j]
                    new == proc'[p].tasks[j] IN
                /\ old.st = "done" => new = old
                /\ (new.st = "done" /\ old.st # "done") => old.st = "running"
                /\ (new.st = "running" /\ old.st # "running") =>
                      old.st = "queued" /\ proc'[p].invoked = proc[p].invoked + 1
                /\ new.st = "queued" => old.st = "queued"]_vars
C19_Witness ==
    /\ FanOutRun(1) /\ Joined(1)
    /\ \E j \in Pool(1) : Failed(1, j)
    /\ proc[1].invoked = Cardinality(Pool(1)) /\ Cardinality(Pool(1)) = 2
    /\ proc[2].op = "filter" /\ Answered(2)
    /\ \E i \in Pool(2) : Failed(2, i)
    /\ proc[2].invoked = Len(proc[2].rows)

\* C20: a cache read never fails because the entry vanished between the
\* existence check and the fetch: a request of analyze_cv_with_jobs,
\* related_jobs or recommend_jobs_for_cv that saw its key present never ends
\* in an error, whatever expiry and delete_cache do in between.
C20_HitNeverFails ==
    \A p \in Procs :
        (proc[p].hit /\ proc[p].op \in {"analyze", "related", "recommend"}) =>
            proc[p].pc # "raised"

\* C21: the match table is append-only and agrees with what is returned.
\* Rows are only ever added at the end; every row has a score >= 0.5 and is
\* the row of a pair whose answer parsed to that score (no rejected or
\* failed pair is persisted); and every entry of a list that
\* analyze_cv_with_jobs holds after its pool, returns or caches has a row
\* with the same cv_id, job_id and score.
HasRows(cv_id, list) ==
    \A i \in 1 .. Len(list) :
        \E k \in RowsOf(cv_id, IdOf(list[i])) :
            cv_job_matches[k].match_score = ScoreOf(list[i])
C21_StoreAppendOnly ==
    /\ [][/\ Len(cv_job_matches') >= Len(cv_job_matches)
          /\ SubSeq(cv_job_matches', 1, Len(cv_job_matches)) = cv_job_matches]_vars
    /\ [](\A k \in 1 .. Len(cv_job_matches) :
            LET row == cv_job_matches[k] IN
            /\ row.match_score >= CV_JOB_THRESHOLD
            /\ \E p \in Procs :
                  /\ proc[p].op = "analyze" /\ proc[p].subj = row.cv_id
                  /\ row.job_id \in Pool(p) /\ Parsed(p, row.job_id)
                  /\ proc[p].tasks[row.job_id].resp.score = row.match_score)
    /\ [](\A p \in Procs :
            proc[p].op = "analyze" =>
                /\ HasRows(proc[p].subj, proc[p].results)
                /\ Answered(p) => HasRows(proc[p].subj, proc[p].ret.val))
    /\ [](\A key \in DOMAIN cache :
            key[1] \in {"nli_analysis:cv", "recommend:cv"} =>
                HasRows(key[2], json_loads(cache[key].val)))
C21_Witness ==
    \E p \in Procs :
        /\ proc[p].op = "analyze" /\ Answered(p)
        /\ \E j, k \in Pool(p) :
              /\ Good(p, j) /\ j \in Ids(proc[p].ret.val)
              /\ Parsed(p, k) /\ ~Qualifies(p, k) /\ RowsOf(proc[p].subj, k) = {}
        /\ Len(json_loads(cache[<<"nli_analysis:cv", proc[p].subj>>].val)) = 1
        /\ Len(cv_job_matches) = 1

\* C22: in analyze_cv_with_jobs the snapshot write comes before the cache
\* writes: whenever the cache holds a nli_analysis:cv:{id} entry, the
\* snapshot table holds a row for that cv_id with the same payload, also
\* when a request died between two steps; snapshots are only ever appended.
Snapshots(cv_id) ==
    {nli_analysis[i].analysis : i \in {k \in 1 .. Len(nli_analysis) :
                                          nli_analysis[k].cv_id = cv_id}}
C22_SnapshotBeforeCache ==
    /\ [](\A key \in DOMAIN cache :
            key[1] = "nli_analysis:cv" => cache[key].val \in Snapshots(key[2]))
    /\ [][/\ Len(nli_analysis') >= Len(nli_analysis)
          /\ SubSeq(nli_analysis', 1, Len(nli_analysis)) = nli_analysis]_vars
C22_Witness ==
    \E p, q \in Procs :
        /\ proc[p].op = "analyze" /\ Answered(p) /\ ~proc[p].hit
        /\ Len(proc[p].ret.val) > 0
        /\ r_exists(<<"nli_analysis:cv", proc[p].subj>>)
        /\ proc[q].op = "analyze" /\ proc[q].pc = "crashed"
        /\ proc[q].subj # proc[p].subj
        /\ Snapshots(proc[q].subj) # {}
        /\ ~r_exists(<<"nli_analysis:cv", proc[q].subj>>)

====
